---- MODULE Spec2Model ----
(***************************************************************************)
(* Model of src/app.py: the technical-indicator and signal-scoring engine  *)
(* (calculate_indicators, analyze_hawk_strategy, analyze_quick_strategy,   *)
(* calculate_entry_exit_points, get_all_indicators, analyze_single_stock)  *)
(* and the scan / cache layer around it (scan_market, load_cache,          *)
(* save_cache, /api/market-scan, /api/refresh).                            *)
(*                                                                         *)
(* Numbers.  Prices are integers in hundredths of the currency unit, so    *)
(* round(x, 2) on a price is rounding to an integer.  Derived indicators   *)
(* are exact rationals [n, d]; a rational with d = 0 stands for the float  *)
(* NaN.  A float comparison with NaN is False, as in numpy.  Where a value *)
(* lies exactly halfway between two roundings the float result depends on  *)
(* the binary representation, so the direction of a tie is an input bit.   *)
(***************************************************************************)
EXTENDS Integers, Sequences, FiniteSets, TLC

VARIABLES
    \* ---- engine inputs and the results of the engine's functions
    stock,      \* descriptor of the security's bar series (see Bars)
    tasi,       \* descriptor of the reference index series (see TasiCloses)
    sector,     \* the sector_trend argument of analyze_hawk_strategy
    tieUp,      \* direction of an exact rounding tie (float representation)
    pcE,        \* position of the engine run: "input", "done", "off"
    frame,      \* result of calculate_indicators
    hawk,       \* result of analyze_hawk_strategy
    quick,      \* result of analyze_quick_strategy
    plan,       \* result of calculate_entry_exit_points
    snapshot,   \* result of get_all_indicators
    report,     \* result of analyze_single_stock
    \* ---- scan / cache layer
    provider,   \* what the data provider currently answers, per symbol
    index,      \* what the data provider currently answers for ^TASI.SR
    now,        \* wall clock, in hours
    cache,      \* contents of market_scan_cache.json
    pc,         \* position of the request in flight: "idle" or "scan"
    endpoint,   \* the route of the request in flight
    todo,       \* symbols the running scan_market loop has still to visit
    results,    \* the running scan_market loop's results list
    fetched,    \* history: the index answers the running scan has fetched
    resp        \* the last response sent

evars == <<stock, tasi, sector, tieUp, pcE, frame, hawk, quick, plan, snapshot, report>>
svars == <<provider, index, now, cache, pc, endpoint, todo, results, fetched, resp>>
vars == <<stock, tasi, sector, tieUp, pcE, frame, hawk, quick, plan, snapshot, report,
          provider, index, now, cache, pc, endpoint, todo, results, fetched, resp>>

----------------------------------------------------------------------------
(* Program constants *)

MinBars == 200          \* len(df) < 200
CacheDuration == 6      \* CACHE_DURATION = timedelta(hours=6)
HawkTotal == 9
QuickTotal == 8
RSIWindow == 14
VolWindow == 20
BBWindow == 20
OBVWindow == 20
TasiWindow == 5
BreakoutWindow == 10

(* Bounds of the model *)

BaseClose == 10         \* close of the flat part of a series, in hundredths
BaseVolume == 1         \* volume of the flat part of a series
Swing == 1              \* a tail bar closes within BaseClose +- Swing
VolumeSpike == 3        \* the largest volume of a tail bar
MaxTasiLen == 6         \* the index series has 0..MaxTasiLen bars
MaxPrice == 120         \* planner prices range over 0..MaxPrice hundredths
TickHours == 3          \* the clock advances TickHours hours at a time
MaxTime == 9            \* the clock stops at MaxTime hours

----------------------------------------------------------------------------
(* Values *)

NaN == 0 - 1            \* a missing Volume (volumes are otherwise >= 0)

None == [kind |-> "None"]
Raised(e) == [kind |-> "raise", exc |-> e]

Rat(n, d) == [n |-> n, d |-> d]
NaNRat == Rat(0, 0)
IsNaN(r) == r.d = 0
Num(v) == IF v = NaN THEN NaNRat ELSE Rat(v, 1)

Abs(x) == IF x < 0 THEN 0 - x ELSE x

RECURSIVE GCD(_, _)
GCD(a, b) == IF b = 0 THEN a ELSE GCD(b, a % b)

Norm(n, d) ==
    LET g == GCD(Abs(n), d) IN IF g = 0 THEN Rat(0, 1) ELSE Rat(n \div g, d \div g)

\* a + b and a - b over the least common denominator
RatAdd(a, b) ==
    LET g == GCD(a.d, b.d)
        l == (a.d \div g) * b.d
    IN  Norm(a.n * (l \div a.d) + b.n * (l \div b.d), l)
RatNeg(a) == Rat(0 - a.n, a.d)
RatScale(k, a, m) == Norm(k * a.n, m * a.d)     \* k * a / m

\* float comparison a > b: False when either side is NaN
Gt(a, b) ==
    /\ ~IsNaN(a)
    /\ ~IsNaN(b)
    /\ LET g == GCD(a.d, b.d) IN a.n * (b.d \div g) > b.n * (a.d \div g)

\* round(n / d) to the nearest integer, d > 0; `up` decides an exact tie
Round(n, d, up) ==
    LET q == n \div d
        r == n % d
    IN  IF 2 * r < d THEN q
        ELSE IF 2 * r > d THEN q + 1
        ELSE IF up THEN q + 1 ELSE q

\* round() of a rational that may be NaN: NaN stays NaN
RoundRat(r, scale, up) == IF IsNaN(r) THEN NaN ELSE Round(scale * r.n, r.d, up)

----------------------------------------------------------------------------
(* Bar series.  A descriptor [pad, tail] stands for the series of `pad`    *)
(* identical flat bars followed by the bars of `tail`; Bars expands it.    *)

BaseBar == [Close |-> BaseClose, High |-> BaseClose, Volume |-> BaseVolume]

Closes == (BaseClose - Swing)..(BaseClose + Swing)
Volumes == {NaN, BaseVolume, VolumeSpike}
TailBars == {[Close |-> c, High |-> c, Volume |-> v] : c \in Closes, v \in Volumes}
Tails == {<<>>} \cup {<<b>> : b \in TailBars} \cup {<<a, b>> : a, b \in TailBars}
Pads == {0, MinBars - 3, MinBars - 1}
Stocks == [pad : Pads, tail : Tails]

Bars(s) ==
    [i \in 1..(s.pad + Len(s.tail)) |->
        IF i <= s.pad THEN BaseBar ELSE s.tail[i - s.pad]]

\* index series: n bars, flat at BaseClose except for the last close
Tasis == {[n |-> 0, last |-> BaseClose]}
            \cup [n : 1..MaxTasiLen, last : {BaseClose, BaseClose + 1}]

\* planner inputs: a series of MinBars bars whose last close is p
PlanStocks ==
    {[pad |-> MinBars - 1, tail |-> <<[Close |-> p, High |-> p, Volume |-> BaseVolume]>>] :
        p \in 0..MaxPrice}

\* what the provider may answer for a security during a scan: nothing, a
\* series one bar short, a full series, a full series whose last volume is
\* missing
DipBar == [Close |-> BaseClose - 1, High |-> BaseClose - 1, Volume |-> BaseVolume]
RiseBar == [Close |-> BaseClose + 1, High |-> BaseClose + 1, Volume |-> VolumeSpike]
GapBar == [Close |-> BaseClose + 1, High |-> BaseClose + 1, Volume |-> NaN]
ScanStocks ==
    {[pad |-> 0, tail |-> <<>>],
     [pad |-> MinBars - 3, tail |-> <<DipBar, RiseBar>>],
     [pad |-> MinBars - 1, tail |-> <<DipBar, RiseBar>>],
     [pad |-> MinBars - 1, tail |-> <<DipBar, GapBar>>]}
TasiCloses(t) == [i \in 1..t.n |-> IF i < t.n THEN BaseClose ELSE t.last]

----------------------------------------------------------------------------
(* Column helpers *)

CloseCol(bars) == [i \in 1..Len(bars) |-> bars[i].Close]
HighCol(bars) == [i \in 1..Len(bars) |-> bars[i].High]
VolumeCol(bars) == [i \in 1..Len(bars) |-> bars[i].Volume]

\* The folds below split their range in halves, which keeps the evaluation
\* shallow on a series of a few hundred bars.
Mid(lo, hi) == (lo + hi) \div 2

RECURSIVE Sum(_, _, _)
Sum(s, lo, hi) ==
    IF lo > hi THEN 0
    ELSE IF lo = hi THEN s[lo]
    ELSE Sum(s, lo, Mid(lo, hi)) + Sum(s, Mid(lo, hi) + 1, hi)

RECURSIVE SumSq(_, _, _)
SumSq(s, lo, hi) ==
    IF lo > hi THEN 0
    ELSE IF lo = hi THEN s[lo] * s[lo]
    ELSE SumSq(s, lo, Mid(lo, hi)) + SumSq(s, Mid(lo, hi) + 1, hi)

RECURSIVE MaxOf(_, _, _)
MaxOf(s, lo, hi) ==
    IF lo = hi THEN s[lo]
    ELSE LET a == MaxOf(s, lo, Mid(lo, hi))
             b == MaxOf(s, Mid(lo, hi) + 1, hi)
         IN  IF a > b THEN a ELSE b

RECURSIVE MinOf(_, _, _)
MinOf(s, lo, hi) ==
    IF lo = hi THEN s[lo]
    ELSE LET a == MinOf(s, lo, Mid(lo, hi))
             b == MinOf(s, Mid(lo, hi) + 1, hi)
         IN  IF a < b THEN a ELSE b

\* df[col].rolling(window=w).mean() at the last bar
RollingMean(col, w) ==
    LET n == Len(col) IN
    IF n < w \/ \E i \in (n - w + 1)..n : col[i] = NaN THEN NaNRat
    ELSE Norm(Sum(col, n - w + 1, n), w)

----------------------------------------------------------------------------
(* RSI: src/app.py lines 50-54 *)

\* delta = df['Close'].diff(); the first bar has no delta (NaN)
Delta(c, i) == c[i] - c[i - 1]

\* delta.where(delta > 0, 0) and -delta.where(delta < 0, 0), summed over lo..hi
GainSum(c, lo, hi) ==
    Sum([i \in lo..hi |-> IF i > 1 /\ Delta(c, i) > 0 THEN Delta(c, i) ELSE 0], lo, hi)

LossSum(c, lo, hi) ==
    Sum([i \in lo..hi |-> IF i > 1 /\ Delta(c, i) < 0 THEN 0 - Delta(c, i) ELSE 0], lo, hi)

\* rs = gain / loss; RSI = 100 - 100 / (1 + rs), in float arithmetic:
\*   loss = 0, gain > 0: rs = inf, RSI = 100 - 0 = 100
\*   loss = 0, gain = 0: rs = 0/0 = NaN, RSI = NaN
\*   otherwise RSI = 100 - 100 * loss / (gain + loss) = 100 * gain / (gain + loss)
RSIValue(gain, loss) ==
    IF loss = 0
    THEN IF gain = 0 THEN NaNRat ELSE Rat(100, 1)
    ELSE Norm(100 * gain, gain + loss)

RSILast(c) ==
    LET n == Len(c) IN
    RSIValue(GainSum(c, n - RSIWindow + 1, n), LossSum(c, n - RSIWindow + 1, n))

----------------------------------------------------------------------------
(* MACD: src/app.py lines 57-60.  ewm(span, adjust=False):                 *)
(* y[0] = x[0], y[t] = (1 - a) * y[t-1] + a * x[t] with a = 2 / (span + 1) *)

SpanFast == 12
SpanSlow == 26
SpanSignal == 9

\* ((span - 1) * e + 2 * x) / (span + 1), over the least common denominator
EmaStep(span, e, x) ==
    LET g == GCD(e.d, x.d)
        l == (e.d \div g) * x.d
    IN  Norm((span - 1) * e.n * (l \div e.d) + 2 * x.n * (l \div x.d), (span + 1) * l)

\* one bar of the three recurrences: exp1, exp2 and the signal line
MACDStep(st, x) ==
    LET n1 == EmaStep(SpanFast, st.exp1, Rat(x, 1))
        n2 == EmaStep(SpanSlow, st.exp2, Rat(x, 1))
    IN  [exp1 |-> n1, exp2 |-> n2,
         sig |-> EmaStep(SpanSignal, st.sig, RatAdd(n1, RatNeg(n2)))]

RECURSIVE MACDPass(_, _, _, _)
MACDPass(c, lo, hi, st) ==
    IF lo > hi THEN st
    ELSE IF lo = hi THEN MACDStep(st, c[lo])
    ELSE LET left == MACDPass(c, lo, Mid(lo, hi), st)
         IN  IF IsNaN(left.sig) THEN left ELSE MACDPass(c, Mid(lo, hi) + 1, hi, left)

MACDLast(c) ==
    LET st == MACDPass(c, 2, Len(c),
                       [exp1 |-> Rat(c[1], 1), exp2 |-> Rat(c[1], 1), sig |-> Rat(0, 1)])
    IN  [MACD |-> RatAdd(st.exp1, RatNeg(st.exp2)), Signal_Line |-> st.sig]

----------------------------------------------------------------------------
(* Bollinger bands: src/app.py lines 63-66.  A band BB_Middle + sign * 2 * *)
(* std is irrational in general; it is kept as [S, Q, w, sign]: S the sum  *)
(* and Q the sum of squares of the window's closes, so that                *)
(*   mean = S / w,  std^2 = (w * Q - S^2) / (w * (w - 1))  (sample std),   *)
(* and every comparison is decided exactly on integers.                    *)

BandOf(c, w, sign) ==
    LET n == Len(c) IN
    [S |-> Sum(c, n - w + 1, n), Q |-> SumSq(c, n - w + 1, n), w |-> w, sign |-> sign,
     spread |-> MaxOf(c, n - w + 1, n) - MinOf(c, n - w + 1, n)]

BandVar(b) == b.w * b.Q - b.S * b.S      \* w * (w - 1) * std^2, >= 0

\* band >= (a / (2 * w)) + mean, i.e. sign * 2 * std >= a / (2 * w)
BandGe(b, a) ==
    IF b.sign > 0
    THEN a <= 0 \/ (b.w - 1) * a * a <= 16 * b.w * BandVar(b)
    ELSE a <= 0 /\ (b.w - 1) * a * a >= 16 * b.w * BandVar(b)

\* x > band, for an integer x
GtBand(x, b) == ~BandGe(b, 2 * (b.w * x - b.S))

\* round(band, 2): the integer k with k - 1/2 <= band < k + 1/2
RoundBand(b, up) ==
    LET a(k) == b.w * (2 * k - 1) - 2 * b.S
        m == b.S \div b.w
        r == 2 * b.spread + 2
        k0 == CHOOSE k \in (m - r)..(m + r) : BandGe(b, a(k)) /\ ~BandGe(b, a(k + 1))
        tie == ~BandGe(b, a(k0) + 1)
    IN  IF tie /\ ~up THEN k0 - 1 ELSE k0

----------------------------------------------------------------------------
(* OBV: src/app.py line 69 *)

Sign(x) == IF x > 0 THEN 1 ELSE IF x < 0 THEN 0 - 1 ELSE 0

\* (np.sign(df['Close'].diff()) * df['Volume']).fillna(0) at bar i
SignedVolume(bars, i) ==
    IF i = 1 \/ bars[i].Volume = NaN THEN 0
    ELSE Sign(bars[i].Close - bars[i - 1].Close) * bars[i].Volume

\* .cumsum() of bars lo..hi, continuing from the running total acc
RECURSIVE CumSum(_, _, _, _)
CumSum(bars, lo, hi, acc) ==
    IF lo > hi THEN <<>>
    ELSE IF lo = hi THEN <<acc + SignedVolume(bars, lo)>>
    ELSE LET left == CumSum(bars, lo, Mid(lo, hi), acc)
         IN  IF Len(left) = 0 THEN left
             ELSE left \o CumSum(bars, Mid(lo, hi) + 1, hi, left[Len(left)])

OBVCol(bars) == CumSum(bars, 1, Len(bars), 0)

----------------------------------------------------------------------------
(* calculate_indicators: src/app.py lines 38-74.  A frame is               *)
(* [bars, cols]: the bar series and whether the indicator columns exist;   *)
(* with cols, `last` is the last row of the indicator columns and `OBV`    *)
(* the OBV column (hawk reads its last 20 values).                         *)

RawFrame(bars) == [bars |-> bars, cols |-> FALSE]

LastRow(bars) ==
    LET c == CloseCol(bars)
        n == Len(bars)
        macd == MACDLast(c)
        obv == OBVCol(bars)
    IN  [Close |-> bars[n].Close,
         High |-> bars[n].High,
         Volume |-> Num(bars[n].Volume),
         MA20 |-> RollingMean(c, 20),
         MA50 |-> RollingMean(c, 50),
         MA100 |-> RollingMean(c, 100),
         MA200 |-> RollingMean(c, 200),
         RSI |-> RSILast(c),
         MACD |-> macd.MACD,
         Signal_Line |-> macd.Signal_Line,
         BB_Middle |-> RollingMean(c, BBWindow),
         Upper_Band |-> BandOf(c, BBWindow, 1),
         Lower_Band |-> BandOf(c, BBWindow, 0 - 1),
         OBV |-> obv[n],
         Volume_MA20 |-> RollingMean(VolumeCol(bars), VolWindow)]

IndicatorColumns(bars) == [last |-> LastRow(bars), OBV |-> OBVCol(bars)]

\* the indicator columns of every full series of the input families,
\* computed once
ColumnsOf ==
    [b \in {Bars(s) : s \in {x \in Stocks \cup PlanStocks \cup ScanStocks :
                                 x.pad + Len(x.tail) >= MinBars}} |->
        IndicatorColumns(b)] @@ <<>>

Columns(bars) ==
    IF bars \in DOMAIN ColumnsOf THEN ColumnsOf[bars] ELSE IndicatorColumns(bars)

calculate_indicators(df) ==
    IF Len(df.bars) = 0 \/ Len(df.bars) < MinBars THEN df
    ELSE [bars |-> df.bars, cols |-> TRUE, last |-> Columns(df.bars).last,
          OBV |-> Columns(df.bars).OBV]

----------------------------------------------------------------------------
(* Strategies: src/app.py lines 76-139 *)

\* tasi_data["Close"].iloc[-1] > tasi_data["Close"].iloc[-5:].mean();
\* iloc[-5:] of a shorter series is the whole series
TasiTrend(t) ==
    LET n == Len(t)
        k == IF n < TasiWindow THEN n ELSE TasiWindow
    IN  t[n] * k > Sum(t, n - k + 1, n)

\* latest["OBV"] > stock_data["OBV"].iloc[-20:].mean()
OBVTrend(df) ==
    LET n == Len(df.OBV) IN df.last.OBV * OBVWindow > Sum(df.OBV, n - OBVWindow + 1, n)

\* latest["Close"] > stock_data["High"].iloc[-11:-1].max()
Breakout(df) ==
    LET n == Len(df.bars) IN
    df.last.Close > MaxOf(HighCol(df.bars), n - BreakoutWindow, n - 1)

\* sum(conditions.values())
CountTrue(conds) == Cardinality({k \in DOMAIN conds : conds[k]})

HawkSignal_Strict(met) == IF met = HawkTotal THEN "buy" ELSE IF met >= 8 THEN "promising" ELSE "watch"

HawkSignal(met) == IF met = HawkTotal THEN "buy" ELSE IF met >= 7 THEN "promising" ELSE "watch"

QuickSignal(met) == IF met = QuickTotal THEN "buy" ELSE IF met >= 6 THEN "promising" ELSE "watch"

HawkVolume(latest) == Gt(latest.Volume, RatScale(2, latest.Volume_MA20, 1))

QuickVolume_Stricter(latest) == Gt(latest.Volume, RatScale(3, latest.Volume_MA20, 1))

QuickVolume(latest) == Gt(latest.Volume, RatScale(3, latest.Volume_MA20, 2))

HawkConditions(df, t, sector_trend) ==
    LET latest == df.last IN
    [tasi |-> TasiTrend(t),
     sector |-> sector_trend,
     obv |-> OBVTrend(df),
     volume |-> HawkVolume(latest),
     breakout |-> Breakout(df),
     ma |-> Gt(Rat(latest.Close, 1), latest.MA50),
     rsi |-> Gt(latest.RSI, Rat(50, 1)) /\ Gt(Rat(70, 1), latest.RSI),
     macd |-> Gt(latest.MACD, latest.Signal_Line) /\ Gt(latest.MACD, Rat(0, 1)),
     bollinger |-> GtBand(latest.Close, latest.Upper_Band)]

QuickConditions(df, t) ==
    LET latest == df.last IN
    [tasi |-> TasiTrend(t),
     volume |-> QuickVolume(latest),
     breakout |-> Breakout(df),
     ma20 |-> Gt(Rat(latest.Close, 1), latest.MA20),
     ma50 |-> Gt(Rat(latest.Close, 1), latest.MA50),
     rsi |-> Gt(latest.RSI, Rat(45, 1)) /\ Gt(Rat(75, 1), latest.RSI),
     macd |-> Gt(latest.MACD, latest.Signal_Line),
     bollinger |-> Gt(Rat(latest.Close, 1), latest.BB_Middle)]

\* percentage is kept in tenths: round(met / total * 100, 1)
StrategyResult(conds, total, signal) ==
    [kind |-> "result",
     conditions |-> conds,
     conditions_met |-> CountTrue(conds),
     total_conditions |-> total,
     percentage |-> Round(1000 * CountTrue(conds), total, TRUE),
     signal |-> signal]

\* lines 98-107 and 130-139: the result built from the conditions dict
HawkResult(conds) == StrategyResult(conds, HawkTotal, HawkSignal(CountTrue(conds)))

QuickResult(conds) == StrategyResult(conds, QuickTotal, QuickSignal(CountTrue(conds)))

\* t is the Close column of tasi_data.  The conditions dict is built in
\* source order: an empty index raises at iloc[-1], a frame without
\* indicator columns raises at latest["OBV"].
analyze_hawk_strategy(df, t, sector_trend) ==
    IF Len(df.bars) = 0 \/ Len(df.bars) < MinBars THEN None
    ELSE IF Len(t) = 0 THEN Raised("IndexError")
    ELSE IF ~df.cols THEN Raised("KeyError")
    ELSE HawkResult(HawkConditions(df, t, sector_trend))

analyze_quick_strategy_EmptyOnly(df, t) ==
    IF Len(df.bars) = 0 THEN None
    ELSE IF Len(t) = 0 THEN Raised("IndexError")
    ELSE IF ~df.cols THEN Raised("KeyError")
    ELSE QuickResult(QuickConditions(df, t))

analyze_quick_strategy(df, t) ==
    IF Len(df.bars) = 0 \/ Len(df.bars) < MinBars THEN None
    ELSE IF Len(t) = 0 THEN Raised("IndexError")
    ELSE IF ~df.cols THEN Raised("KeyError")
    ELSE QuickResult(QuickConditions(df, t))

----------------------------------------------------------------------------
(* calculate_entry_exit_points: src/app.py lines 141-169.  Prices are in   *)
(* hundredths, ratios in hundredths; ties is the direction of each of the  *)
(* six roundings should it be an exact tie.                                *)

TieBits == [entry : BOOLEAN, stop : BOOLEAN, t1 : BOOLEAN, t2 : BOOLEAN,
            r1 : BOOLEAN, r2 : BOOLEAN]
AllTies(up) == [entry |-> up, stop |-> up, t1 |-> up, t2 |-> up, r1 |-> up, r2 |-> up]

\* round(num / den, 2) in numpy float arithmetic: x / 0 is inf, -inf or nan
\* (a RuntimeWarning, not an exception), and round() keeps it
Ratio(num, den, up) ==
    IF den = 0
    THEN IF num = 0 THEN [kind |-> "nan"]
         ELSE IF num > 0 THEN [kind |-> "inf"] ELSE [kind |-> "-inf"]
    ELSE IF den > 0 THEN [kind |-> "num", v |-> Round(100 * num, den, up)]
    ELSE [kind |-> "num", v |-> Round(0 - 100 * num, 0 - den, up)]

calculate_entry_exit_points(df, ties) ==
    IF Len(df.bars) = 0 THEN None
    ELSE LET current_price == df.bars[Len(df.bars)].Close
             entry_price == Round(995 * current_price, 1000, ties.entry)
             stop_loss == Round(95 * current_price, 100, ties.stop)
             target1 == Round(110 * current_price, 100, ties.t1)
             target2 == Round(120 * current_price, 100, ties.t2)
         IN  [kind |-> "plan",
              current_price |-> current_price,
              entry_price |-> entry_price,
              stop_loss |-> stop_loss,
              target1 |-> target1,
              target2 |-> target2,
              risk_reward_1 |-> Ratio(target1 - entry_price, entry_price - stop_loss, ties.r1),
              risk_reward_2 |-> Ratio(target2 - entry_price, entry_price - stop_loss, ties.r2)]

----------------------------------------------------------------------------
(* get_all_indicators: src/app.py lines 171-192.  round(NaN, 2) is NaN;    *)
(* int(NaN) raises ValueError; a frame without the indicator columns       *)
(* raises KeyError at latest["RSI"].  rsi is in hundredths of a point.     *)

get_all_indicators(df, up) ==
    IF Len(df.bars) = 0 THEN None
    ELSE IF ~df.cols THEN Raised("KeyError")
    ELSE LET latest == df.last IN
         IF IsNaN(latest.Volume) \/ IsNaN(latest.Volume_MA20) THEN Raised("ValueError")
         ELSE [kind |-> "indicators",
               rsi |-> RoundRat(latest.RSI, 100, up),
               macd |-> RoundRat(latest.MACD, 1, up),
               signal_line |-> RoundRat(latest.Signal_Line, 1, up),
               ma20 |-> RoundRat(latest.MA20, 1, up),
               ma50 |-> RoundRat(latest.MA50, 1, up),
               ma100 |-> RoundRat(latest.MA100, 1, up),
               ma200 |-> RoundRat(latest.MA200, 1, up),
               upper_band |-> RoundBand(latest.Upper_Band, up),
               middle_band |-> RoundRat(latest.BB_Middle, 1, up),
               lower_band |-> RoundBand(latest.Lower_Band, up),
               obv |-> latest.OBV,
               volume |-> latest.Volume.n,
               volume_ma20 |-> latest.Volume_MA20.n \div latest.Volume_MA20.d]

----------------------------------------------------------------------------
(* analyze_single_stock: src/app.py lines 194-235.  s and t are what the   *)
(* two fetches (the security, then ^TASI.SR) returned: a bar series and    *)
(* the index's Close column.  An exception raised by a callee propagates.  *)

analyze_single_stock(symbol, s, t, clock, up) ==
    IF Len(s) = 0 THEN None
    ELSE LET stock_data == calculate_indicators(RawFrame(s)) IN
         IF Len(t) = 0 THEN None
         ELSE LET hawk_analysis == analyze_hawk_strategy(stock_data, t, TRUE)
                  quick_analysis == analyze_quick_strategy(stock_data, t)
              IN  IF hawk_analysis.kind = "raise" THEN hawk_analysis
                  ELSE IF quick_analysis.kind = "raise" THEN quick_analysis
                  ELSE IF hawk_analysis = None \/ quick_analysis = None THEN None
                  ELSE LET entry_exit == calculate_entry_exit_points(stock_data, AllTies(up))
                           indicators == get_all_indicators(stock_data, up)
                       IN  IF indicators.kind = "raise" THEN indicators
                           ELSE [kind |-> "report",
                                 symbol |-> symbol,
                                 hawk |-> hawk_analysis,
                                 quick |-> quick_analysis,
                                 entry_exit |-> entry_exit,
                                 indicators |-> indicators,
                                 timestamp |-> clock]

----------------------------------------------------------------------------
(* The engine applied to one security: calculate_indicators, then the      *)
(* planner, the snapshot, analyze_single_stock on the same inputs, and the *)
(* two strategies.  The scan layer is switched off in these runs.          *)

EmptyStock == [pad |-> 0, tail |-> <<>>]
EmptyTasi == [n |-> 0, last |-> BaseClose]
Registry == <<"1010", "2222">>
Symbols == {Registry[i] : i \in DOMAIN Registry}
NoFile == [kind |-> "nofile"]
NoResp == [kind |-> "none"]

ScanOff ==
    /\ provider = [y \in Symbols |-> EmptyStock]
    /\ index = EmptyTasi
    /\ now = 0
    /\ cache = NoFile
    /\ pc = "off"
    /\ endpoint = "none"
    /\ todo = <<>>
    /\ results = <<>>
    /\ fetched = <<>>
    /\ resp = NoResp

EngineStart ==
    /\ tasi = EmptyTasi
    /\ sector = TRUE
    /\ tieUp = FALSE
    /\ frame = None
    /\ hawk = None
    /\ quick = None
    /\ plan = None
    /\ snapshot = None
    /\ report = None

InitEngine ==
    /\ stock \in Stocks
    /\ pcE = "input"
    /\ EngineStart
    /\ ScanOff

DoCalc ==
    /\ pcE = "input"
    /\ frame' = calculate_indicators(RawFrame(Bars(stock)))
    /\ pcE' = "plan"
    /\ UNCHANGED <<stock, tasi, sector, tieUp, hawk, quick, plan, snapshot, report>>
    /\ UNCHANGED svars

DoPlan ==
    /\ pcE = "plan"
    /\ \E ties \in TieBits : plan' = calculate_entry_exit_points(frame, ties)
    /\ pcE' = "snapshot"
    /\ UNCHANGED <<stock, tasi, sector, tieUp, frame, hawk, quick, snapshot, report>>
    /\ UNCHANGED svars

DoSnapshot ==
    /\ pcE = "snapshot"
    /\ \E up \in BOOLEAN :
          /\ tieUp' = up
          /\ snapshot' = get_all_indicators(frame, up)
    /\ pcE' = "single"
    /\ UNCHANGED <<stock, tasi, sector, frame, hawk, quick, plan, report>>
    /\ UNCHANGED svars

DoSingle ==
    /\ pcE = "single"
    /\ \E t \in Tasis :
          /\ tasi' = t
          /\ report' = analyze_single_stock(Registry[1], Bars(stock), TasiCloses(t), now, tieUp)
    /\ pcE' = "hawk"
    /\ UNCHANGED <<stock, sector, tieUp, frame, hawk, quick, plan, snapshot>>
    /\ UNCHANGED svars

DoHawk ==
    /\ pcE = "hawk"
    /\ \E sector_trend \in BOOLEAN :
          /\ sector' = sector_trend
          /\ hawk' = analyze_hawk_strategy(frame, TasiCloses(tasi), sector_trend)
    /\ pcE' = "quick"
    /\ UNCHANGED <<stock, tasi, tieUp, frame, quick, plan, snapshot, report>>
    /\ UNCHANGED svars

DoQuick ==
    /\ pcE = "quick"
    /\ quick' = analyze_quick_strategy(frame, TasiCloses(tasi))
    /\ pcE' = "done"
    /\ UNCHANGED <<stock, tasi, sector, tieUp, frame, hawk, plan, snapshot, report>>
    /\ UNCHANGED svars

NextEngine == DoCalc \/ DoPlan \/ DoSnapshot \/ DoSingle \/ DoHawk \/ DoQuick

SpecEngine == InitEngine /\ [][NextEngine]_vars

----------------------------------------------------------------------------
(* The planner applied to every last close 0..MaxPrice of a full series.   *)

InitPlan ==
    /\ stock \in PlanStocks
    /\ pcE = "input"
    /\ EngineStart
    /\ ScanOff

NextPlan == DoCalc \/ DoPlan

SpecPlan == InitPlan /\ [][NextPlan]_vars

----------------------------------------------------------------------------
(* The scoring step of the two strategies (conditions dict -> result)      *)
(* applied to every combination of condition truth values.                 *)

HawkNames == {"tasi", "sector", "obv", "volume", "breakout", "ma", "rsi", "macd", "bollinger"}
QuickNames == {"tasi", "volume", "breakout", "ma20", "ma50", "rsi", "macd", "bollinger"}

InitScore ==
    /\ stock = EmptyStock
    /\ pcE = "score"
    /\ EngineStart
    /\ ScanOff

ScoreHawk ==
    /\ pcE = "score"
    /\ \E conds \in [HawkNames -> BOOLEAN] : hawk' = HawkResult(conds)
    /\ pcE' = "scored"
    /\ UNCHANGED <<stock, tasi, sector, tieUp, frame, quick, plan, snapshot, report>>
    /\ UNCHANGED svars

ScoreQuick ==
    /\ pcE = "score"
    /\ \E conds \in [QuickNames -> BOOLEAN] : quick' = QuickResult(conds)
    /\ pcE' = "scored"
    /\ UNCHANGED <<stock, tasi, sector, tieUp, frame, hawk, plan, snapshot, report>>
    /\ UNCHANGED svars

NextScore == ScoreHawk \/ ScoreQuick

SpecScore == InitScore /\ [][NextScore]_vars

----------------------------------------------------------------------------
(* The scan and cache layer: src/app.py lines 237-363.  A request is in    *)
(* flight from its Start step to its response; scan_market visits the      *)
(* registry one security per step, and each step fetches the security and  *)
(* then the index from the provider, whose answer for the index may change *)
(* between two steps.  The clock moves between requests.                   *)

ScanTasis ==
    {EmptyTasi,
     [n |-> 1, last |-> BaseClose + 1],
     [n |-> MaxTasiLen, last |-> BaseClose + 1]}

Data(d) == [kind |-> "data", data |-> d]

\* load_cache: None when the file is absent, unreadable or expired
load_cache(c, clock) ==
    IF c.kind = "nofile" THEN None
    ELSE IF c.kind = "corrupt" THEN None
    ELSE IF clock - c.timestamp < CacheDuration THEN Data(c.data)
    ELSE None

\* save_cache
save_cache(data, clock) == [kind |-> "file", timestamp |-> clock, data |-> data]

\* what a response records of the cache file load_cache looked at
Seen(c) == IF c.kind = "file" THEN [kind |-> "file", timestamp |-> c.timestamp]
           ELSE [kind |-> c.kind]

\* sorted(..., key=percentage, reverse=True)[:20] as the symbols in order;
\* the sort is stable
RECURSIVE InsertDesc(_, _, _)
InsertDesc(sorted, d, key) ==
    IF Len(sorted) = 0 THEN <<d>>
    ELSE IF d[key].percentage > sorted[Len(sorted)][key].percentage
         THEN Append(InsertDesc(SubSeq(sorted, 1, Len(sorted) - 1), d, key), sorted[Len(sorted)])
         ELSE Append(sorted, d)

RECURSIVE SortDesc(_, _)
SortDesc(data, key) ==
    IF Len(data) = 0 THEN <<>>
    ELSE InsertDesc(SortDesc(SubSeq(data, 1, Len(data) - 1), key), data[Len(data)], key)

Top20(data, key) ==
    LET srt == SortDesc(data, key)
    IN  [i \in 1..(IF Len(srt) < 20 THEN Len(srt) ELSE 20) |-> srt[i].symbol]

\* the body of api_market_scan after data is known: lines 303-329.  t is
\* the Close column get_tasi_data() returns now; iloc[-2] of a one-bar
\* series raises IndexError.
market_scan_response(data, t, source, seen, clock) ==
    IF Len(t) = 1
    THEN [kind |-> "error", exc |-> "IndexError", endpoint |-> "market-scan",
          source |-> source, seen |-> seen, at |-> clock]
    ELSE [kind |-> "ok", endpoint |-> "market-scan", source |-> source, seen |-> seen,
          at |-> clock,
          total_stocks |-> Len(data),
          tasi_current |-> IF Len(t) = 0 THEN 0 ELSE t[Len(t)],
          tasi_change |-> IF Len(t) = 0 THEN 0
                          ELSE Round(10000 * (t[Len(t)] - t[Len(t) - 1]), t[Len(t) - 1], TRUE),
          hawk_signals |-> Cardinality({i \in DOMAIN data : data[i].hawk.signal = "buy"}),
          quick_signals |-> Cardinality({i \in DOMAIN data : data[i].quick.signal = "buy"}),
          hawk_top20 |-> Top20(data, "hawk"),
          quick_top20 |-> Top20(data, "quick")]

Init ==
    /\ provider \in [Symbols -> ScanStocks]
    /\ index \in ScanTasis
    /\ now = 0
    /\ cache \in {NoFile, [kind |-> "corrupt"]}
    /\ pc = "idle"
    /\ endpoint = "none"
    /\ todo = <<>>
    /\ results = <<>>
    /\ fetched = <<>>
    /\ resp = NoResp
    /\ stock = EmptyStock
    /\ pcE = "off"
    /\ EngineStart

\* the clock advances
Tick ==
    /\ pc = "idle"
    /\ now + TickHours <= MaxTime
    /\ now' = now + TickHours
    /\ UNCHANGED <<provider, index, cache, pc, endpoint, todo, results, fetched, resp>>
    /\ UNCHANGED evars

\* the provider's answer for ^TASI.SR changes
IndexChange ==
    /\ pc \in {"idle", "scan"}
    /\ \E t \in ScanTasis \ {index} : index' = t
    /\ UNCHANGED <<provider, now, cache, pc, endpoint, todo, results, fetched, resp>>
    /\ UNCHANGED evars

\* GET /api/market-scan with a valid cache: lines 296-329
MarketScanCached ==
    /\ pc = "idle"
    /\ load_cache(cache, now) # None
    /\ endpoint' = "market-scan"
    /\ resp' = market_scan_response(load_cache(cache, now).data, TasiCloses(index),
                                    "cache", Seen(cache), now)
    /\ UNCHANGED <<provider, index, now, cache, pc, todo, results, fetched>>
    /\ UNCHANGED evars

\* GET /api/market-scan without a valid cache: lines 296-300, entering scan_market
MarketScanStart ==
    /\ pc = "idle"
    /\ load_cache(cache, now) = None
    /\ endpoint' = "market-scan"
    /\ pc' = "scan"
    /\ todo' = Registry
    /\ results' = <<>>
    /\ fetched' = <<>>
    /\ resp' = [kind |-> "none", seen |-> Seen(cache)]
    /\ UNCHANGED <<provider, index, now, cache>>
    /\ UNCHANGED evars

\* GET /api/refresh: line 360, entering scan_market
RefreshStart ==
    /\ pc = "idle"
    /\ endpoint' = "refresh"
    /\ pc' = "scan"
    /\ todo' = Registry
    /\ results' = <<>>
    /\ fetched' = <<>>
    /\ resp' = [kind |-> "none", seen |-> Seen(cache)]
    /\ UNCHANGED <<provider, index, now, cache>>
    /\ UNCHANGED evars

\* one iteration of the loop of scan_market: lines 242-248.  An exception
\* raised by analyze_single_stock leaves scan_market and the route handler,
\* which has no handler of its own: the request ends in an error response.
ScanStep ==
    /\ pc = "scan"
    /\ todo # <<>>
    /\ \E up \in BOOLEAN :
       \E analysis \in {analyze_single_stock(Head(todo), Bars(provider[Head(todo)]),
                                             TasiCloses(index), now, up)} :
        /\ fetched' = IF Len(Bars(provider[Head(todo)])) = 0 THEN fetched
                      ELSE Append(fetched, [symbol |-> Head(todo), index |-> index,
                                            reported |-> analysis.kind = "report"])
        /\ IF analysis.kind = "raise"
           THEN /\ pc' = "idle"
                /\ todo' = <<>>
                /\ results' = <<>>
                /\ resp' = [kind |-> "error", exc |-> analysis.exc, endpoint |-> endpoint,
                            source |-> "scan", seen |-> resp.seen, at |-> now]
           ELSE /\ pc' = "scan"
                /\ todo' = Tail(todo)
                /\ results' = IF analysis = None THEN results ELSE Append(results, analysis)
                /\ resp' = resp
    /\ UNCHANGED <<provider, index, now, cache, endpoint>>
    /\ UNCHANGED evars

\* the end of scan_market and the rest of the handler: save_cache, then the
\* response (lines 250-251, 301-329 and 361-363)
ScanFinish ==
    /\ pc = "scan"
    /\ todo = <<>>
    /\ cache' = save_cache(results, now)
    /\ resp' = IF endpoint = "refresh"
               THEN [kind |-> "ok", endpoint |-> "refresh", source |-> "scan",
                     seen |-> resp.seen, at |-> now, total |-> Len(results)]
               ELSE market_scan_response(results, TasiCloses(index), "scan", resp.seen, now)
    /\ pc' = "idle"
    /\ results' = <<>>
    /\ UNCHANGED <<provider, index, now, endpoint, todo, fetched>>
    /\ UNCHANGED evars

Next ==
    \/ Tick
    \/ IndexChange
    \/ MarketScanCached
    \/ MarketScanStart
    \/ RefreshStart
    \/ ScanStep
    \/ ScanFinish

Spec == Init /\ [][Next]_vars

----------------------------------------------------------------------------
(* Properties of the engine *)

NumTrue(conds) == Cardinality({k \in DOMAIN conds : conds[k] = TRUE})

SignalContract(r, total) ==
    /\ r.total_conditions = total
    /\ r.conditions_met = NumTrue(r.conditions)
    /\ r.conditions_met \in 0..total
    /\ (r.signal = "buy") <=> (r.conditions_met = total)
    /\ (r.signal = "promising") <=> (total - 2 <= r.conditions_met /\ r.conditions_met < total)
    /\ (r.signal = "watch") <=> (r.conditions_met < total - 2)

\* C1: every result of analyze_hawk_strategy (total 9) and of
\* analyze_quick_strategy (total 8), for every combination of condition
\* truth values, has conditions_met = the number of true conditions, in
\* 0..total; signal is buy iff conditions_met = total, promising iff
\* total - 2 <= conditions_met < total, and watch otherwise.
C1_SignalContract ==
    /\ hawk.kind = "result" => SignalContract(hawk, 9)
    /\ quick.kind = "result" => SignalContract(quick, 8)

C1_Witness ==
    /\ hawk.kind = "result"
    /\ hawk.conditions_met = 7
    /\ hawk.signal = "promising"
    /\ ~hawk.conditions.rsi

Short == Len(Bars(stock)) < 200

C5_IndexNeedsFiveBars ==
    (pcE = "done" /\ tasi.n < 5) =>
        /\ hawk.kind # "result"
        /\ quick.kind # "result"
        /\ report.kind # "report"

\* the 14-bar average loss at the last bar is zero
ZeroLoss == LET c == CloseCol(Bars(stock)) IN LossSum(c, Len(c) - 13, Len(c)) = 0

\* C8: for every close series of length >= 200 the RSI at the last bar is
\* defined, lies in [0, 100], and equals 100 exactly when the average loss
\* over the trailing 14 bars is zero (flat closes included).
C8_RSIRange ==
    (pcE # "input" /\ Len(Bars(stock)) >= 200) =>
        /\ ~IsNaN(frame.last.RSI)
        /\ 0 <= frame.last.RSI.n
        /\ frame.last.RSI.n <= 100 * frame.last.RSI.d
        /\ (frame.last.RSI = Rat(100, 1)) <=> ZeroLoss

\* C10: on the same inputs every Hawk condition implies its Quick
\* counterpart, so a Hawk buy implies a Quick buy; and Quick's ma20 and
\* bollinger conditions always have the same truth value.
C10_HawkImpliesQuick ==
    (hawk.kind = "result" /\ quick.kind = "result") =>
        /\ hawk.conditions.tasi => quick.conditions.tasi
        /\ hawk.conditions.volume => quick.conditions.volume
        /\ hawk.conditions.breakout => quick.conditions.breakout
        /\ hawk.conditions.ma => quick.conditions.ma50
        /\ hawk.conditions.rsi => quick.conditions.rsi
        /\ hawk.conditions.macd => quick.conditions.macd
        /\ hawk.conditions.bollinger => (quick.conditions.bollinger /\ quick.conditions.ma20)
        /\ (hawk.signal = "buy") => (quick.signal = "buy")
        /\ quick.conditions.ma20 <=> quick.conditions.bollinger

C10_Witness ==
    /\ hawk.kind = "result"
    /\ quick.kind = "result"
    /\ hawk.signal = "buy"
    /\ quick.signal = "buy"

----------------------------------------------------------------------------
(* Properties of the planner *)

Planned == pcE = "snapshot" /\ plan.kind = "plan"

RatioGt(a, b) == a.kind = "num" /\ b.kind = "num" /\ a.v > b.v

\* C6: calculate_entry_exit_points rejects a non-positive current price:
\* for a latest close of 0 it produces "not computable" (None), never a
\* plan and never a risk/reward division by zero.
C6_RejectsNonPositivePrice ==
    (pcE = "snapshot" /\ frame.bars[Len(frame.bars)].Close <= 0) => plan = None

\* C7: for every positive current price (0.01 included), with entry, stop and
\* targets rounded to 2 decimals, entry - stop > 0 and
\* risk_reward_2 > risk_reward_1.
C7_EveryPositivePrice ==
    (Planned /\ plan.current_price > 0) =>
        /\ plan.entry_price - plan.stop_loss > 0
        /\ RatioGt(plan.risk_reward_2, plan.risk_reward_1)

----------------------------------------------------------------------------
(* Properties of the scan and of the cache *)

\* C3: within one scan_market run every security that is analysed is
\* compared against the identical index snapshot: for any two securities
\* reported by the same scan the index series fetched for them is the same,
\* even if the provider's answer changes between fetches.
C3_OneIndexSnapshot ==
    \A i, j \in DOMAIN fetched :
        (fetched[i].reported /\ fetched[j].reported) => fetched[i].index = fetched[j].index

\* C4: a scan never fails wholesale because of one bad security: whatever
\* the per-security data and the index, no request ends with an exception
\* that left scan_market or the scan endpoint.
C4_ScanNeverFails == resp.kind # "error"

Fresh(r) == r.seen.kind = "file" /\ r.at - r.seen.timestamp < 6

Saved(r) == cache.kind = "file" /\ cache.timestamp = r.at

\* C9: /api/market-scan answers from the cache only when now - cache
\* timestamp < 6 hours and otherwise (cache absent, unreadable or expired)
\* runs a new scan and saves it; /api/refresh always runs a new scan and
\* overwrites the cache, whatever its age.
C9_CachePolicy ==
    (pc = "idle" /\ resp.kind # "none") =>
        IF resp.endpoint = "market-scan"
        THEN IF Fresh(resp) THEN resp.source = "cache"
             ELSE resp.source = "scan" /\ Saved(resp)
        ELSE resp.source = "scan" /\ Saved(resp)

====
